---- MODULE Spec2Model ----
(***************************************************************************)
(* The Auth Client of shared-moments (GoogleAuthService, web build with    *)
(* persisted sessions) together with the browser's localStorage, the       *)
(* token and profile endpoints and the Folder/Photo Lister's token.        *)
(*                                                                         *)
(* A nullable JavaScript value is a sequence of length at most one:        *)
(* null is << >> and the value v is <<v>>.  Strings are TLA+ strings; the  *)
(* empty string, the only falsy string, is not among the values used.      *)
(***************************************************************************)
EXTENDS Integers, Sequences, FiniteSets, TLC

VARIABLES
    localStorage,   \* the four keys the Auth Client reads and writes
    env,            \* process.env: the OAuth client id and secret
    now,            \* Date.now(), in milliseconds
    page,           \* what the browser tab shows: "closed", "app", "idp"
    currentUser,    \* GoogleAuthService.currentUser
    accessToken,    \* GoogleAuthService.accessToken
    driveToken,     \* GoogleDriveService.accessToken
    exchange,       \* where the running processAuthCode call is suspended
    tokenRequests,  \* how often each code was POSTed to the token endpoint
    nextCode,       \* number of the next authorization code the provider issues
    before,         \* the session as left by the last call other than processAuthCode
    lastOp,         \* the operation that ran last, when, and how it ended
    appStorage,     \* localStorage: the folder URL and the folder selection
    pass,           \* the running or last call of loadPhotosFromDrive
    drivePhotos,    \* App state: the photos loaded from Drive
    photoError,     \* App state: the message shown instead of the photos
    isLoadingPhotos,\* App state
    dialog,         \* the state of the SettingsDialog component
    isAuthenticated,\* App state
    isPlaying,      \* App state
    currentPhotoIndex, \* App state
    timer,          \* the intervals of the advance timer
    rendered,       \* the index and the list length of the last render before effects
    earlierPass,    \* a call of loadPhotosFromDrive that a later call has overtaken
    signOutCall     \* where the calls of the asynchronous-storage build are suspended

vars == <<localStorage, env, now, page, currentUser, accessToken, driveToken,
          exchange, tokenRequests, nextCode, before, lastOp, appStorage, pass,
          drivePhotos, photoError, isLoadingPhotos, dialog, isAuthenticated,
          isPlaying, currentPhotoIndex, timer, rendered, earlierPass, signOutCall>>

\* The state of the Auth Client and of its surroundings
authVars == <<localStorage, env, now, page, currentUser, accessToken, driveToken,
              exchange, tokenRequests, nextCode, before, lastOp>>

\* The state of the slideshow
slideVars == <<isPlaying, currentPhotoIndex, timer, rendered>>

\* What is left of the App's state
sessionVars == <<isAuthenticated, earlierPass, signOutCall>>

\* The state of the photo side of the App
photoVars == <<appStorage, pass, drivePhotos, photoError, isLoadingPhotos, dialog,
               slideVars, sessionVars>>

----------------------------------------------------------------------------
(* Bounds *)

MaxCodes == 2

Instants == {0, 1000, 299000, 300000, 301000, 302000}

Tokens == {"t1", "t2"}

----------------------------------------------------------------------------
(* JavaScript values *)

null == << >>

undefined == "<undefined>"

Some(v) == <<v>>

Truthy(x) == x # null

\* String(x) as localStorage.setItem applies it to a value that is not a string
String(x) == IF x = null THEN "null" ELSE x[1]

Codes == {ToString(i) : i \in 1..MaxCodes}

UserFields == <<"id", "email", "name", "photo">>

UserInfos ==
    { [id |-> "1", email |-> "a@x", name |-> "A", picture |-> "pic"],
      [id |-> "2", email |-> "b@x", name |-> "B", picture |-> undefined] }

\* JSON.stringify of a GoogleUser: the members in declaration order, a member
\* whose value is undefined left out
JSON_stringify(user) ==
    SelectSeq([i \in 1..Len(UserFields) |-> <<UserFields[i], user[UserFields[i]]>>],
              LAMBDA member : member[2] # undefined)

\* JSON.parse of such a text: reading a member the text lacks gives undefined
JSON_parse(text) ==
    [f \in {UserFields[i] : i \in 1..Len(UserFields)} |->
        IF \E i \in 1..Len(text) : text[i][1] = f
        THEN text[CHOOSE i \in 1..Len(text) : text[i][1] = f][2]
        ELSE undefined]

NaN == << >>

\* parseInt of a stored string: the number a decimal string denotes, else NaN
parseInt(s) ==
    LET denoted == {n \in Instants : ToString(n) = s}
    IN  IF denoted = {} THEN NaN ELSE Some(CHOOSE n \in denoted : TRUE)

\* Date.now() - parseInt(completionTime)
timeDiff(t, completionTime) ==
    LET parsed == parseInt(completionTime)
    IN  IF parsed = NaN THEN NaN ELSE Some(t - parsed[1])

\* a < b in JavaScript: false when a is NaN
LessThan(a, b) == a # NaN /\ a[1] < b

FiveMinutes == 5 * 60 * 1000

----------------------------------------------------------------------------
(* localStorage *)

getItem(ls, key) == ls[key]

setItem(ls, key, value) == [ls EXCEPT ![key] = Some(value)]

removeItem(ls, key) == [ls EXCEPT ![key] = null]

removeAttempt(ls) ==
    removeItem(removeItem(ls, "temp_auth_code"), "oauth_completion_time")

----------------------------------------------------------------------------
(* GoogleAuthService *)

isSignedIn == currentUser # null

getAccessToken == accessToken

Session ==
    [user |-> currentUser, token |-> accessToken, lister |-> driveToken,
     storedUser |-> localStorage.google_auth_user,
     storedToken |-> localStorage.google_auth_token]

\* buildAuthUrl: the URL's client_id parameter, or null when it throws
buildAuthUrl ==
    LET clientId == env.REACT_APP_GOOGLE_CLIENT_ID
    IN  IF ~Truthy(clientId) THEN null ELSE Some(clientId[1])

\* clearStoredAuth that forgets the token key
clearStoredAuth_userOnly(ls) == removeItem(ls, "google_auth_user")

\* clearStoredAuth, as a function of the storage: the storage it leaves
clearStoredAuth(ls) ==
    removeItem(removeItem(ls, "google_auth_user"), "google_auth_token")

\* setAuthenticatedUser(user, token) from memory m = [user, token, lister] and
\* storage ls: what it leaves in memory and in the storage
setAuthenticatedUser(user, token, lister, ls) ==
    [user   |-> Some(user),
     token  |-> token,
     ls     |-> setItem(setItem(ls, "google_auth_user", JSON_stringify(user)),
                        "google_auth_token", String(token)),
     lister |-> IF Truthy(token) THEN token ELSE lister]

\* loadStoredAuth with `||` for `&&`
loadStoredAuth_either(ls) ==
    LET storedUser  == getItem(ls, "google_auth_user")
        storedToken == getItem(ls, "google_auth_token")
    IN  IF Truthy(storedUser) \/ Truthy(storedToken)
        THEN [user   |-> IF Truthy(storedUser)
                         THEN Some(JSON_parse(storedUser[1])) ELSE null,
              token  |-> storedToken,
              lister |-> storedToken]
        ELSE [user |-> null, token |-> null, lister |-> null]

\* loadStoredAuth that reads the storage and adopts nothing
loadStoredAuth_noAdopt(ls) == [user |-> null, token |-> null, lister |-> null]

\* loadStoredAuth on a freshly constructed service: what it leaves in memory
loadStoredAuth(ls) ==
    LET storedUser  == getItem(ls, "google_auth_user")
        storedToken == getItem(ls, "google_auth_token")
    IN  IF Truthy(storedUser) /\ Truthy(storedToken)
        THEN [user   |-> Some(JSON_parse(storedUser[1])),
              token  |-> storedToken,
              lister |-> storedToken]
        ELSE [user |-> null, token |-> null, lister |-> null]

\* checkForOAuthCompletion without the age test
checkForOAuthCompletion_noExpiry(ls, t) ==
    LET tempAuthCode   == getItem(ls, "temp_auth_code")
        completionTime == getItem(ls, "oauth_completion_time")
    IN  IF Truthy(tempAuthCode) /\ Truthy(completionTime)
        THEN [code |-> tempAuthCode, ls |-> removeAttempt(ls)]
        ELSE [code |-> null, ls |-> ls]

\* checkForOAuthCompletion that cleans up expired attempts only
checkForOAuthCompletion_keepsCode(ls, t) ==
    LET tempAuthCode   == getItem(ls, "temp_auth_code")
        completionTime == getItem(ls, "oauth_completion_time")
    IN  IF Truthy(tempAuthCode) /\ Truthy(completionTime)
        THEN IF LessThan(timeDiff(t, completionTime[1]), FiveMinutes)
             THEN [code |-> tempAuthCode, ls |-> ls]
             ELSE [code |-> null, ls |-> removeAttempt(ls)]
        ELSE [code |-> null, ls |-> ls]

\* checkForOAuthCompletion at time t: the code it hands to processAuthCode (or
\* null) and the storage it leaves
checkForOAuthCompletion(ls, t) ==
    LET tempAuthCode   == getItem(ls, "temp_auth_code")
        completionTime == getItem(ls, "oauth_completion_time")
    IN  IF Truthy(tempAuthCode) /\ Truthy(completionTime)
        THEN IF LessThan(timeDiff(t, completionTime[1]), FiveMinutes)
             THEN [code |-> tempAuthCode, ls |-> removeAttempt(ls)]
             ELSE [code |-> null, ls |-> removeAttempt(ls)]
        ELSE [code |-> null, ls |-> ls]

\* processAuthCode up to its first await: TRUE when the token request is sent,
\* FALSE when the missing credentials make it throw into its own catch
sendsTokenRequest ==
    /\ Truthy(env.REACT_APP_GOOGLE_CLIENT_ID)
    /\ Truthy(env.REACT_APP_GOOGLE_CLIENT_SECRET)

Idle == [pc |-> "idle", code |-> ""]

----------------------------------------------------------------------------
(* The photo side: what the App keeps in localStorage for it, how a folder *)
(* URL is read, and the Folder/Photo Lister (GoogleDriveService).          *)
(*                                                                         *)
(* A URL is the sequence of its pieces; "/" and "?" are the two characters *)
(* the folder pattern looks at, every other piece is a run of other        *)
(* characters.  A JSON text of an array is "[", the elements, "]".         *)

MaxUrlLen == 5

MaxFiles == 1

UrlPieces == {"/", "?", "folders", "XYZ123"}

RECURSIVE SeqsUpTo(_, _)
SeqsUpTo(S, n) ==
    IF n = 0 THEN {<< >>}
    ELSE LET shorter == SeqsUpTo(S, n - 1)
         IN  shorter \cup {Append(s, x) : s \in shorter, x \in S}

\* "https://drive.example.com/drive/folders/XYZ123?usp=sharing"
SharingUrl ==
    <<"https:", "/", "/", "drive.example.com", "/", "drive", "/", "folders", "/",
      "XYZ123", "?", "usp=sharing">>

\* "https://drive.example.com/drive/"
DriveHomeUrl == <<"https:", "/", "/", "drive.example.com", "/", "drive", "/">>

Urls == SeqsUpTo(UrlPieces, MaxUrlLen) \cup {SharingUrl, DriveHomeUrl}

RECURSIVE join(_)
join(pieces) == IF pieces = << >> THEN "" ELSE Head(pieces) \o join(Tail(pieces))

\* [^/?]+ applied at position k: the position after the longest run of
\* pieces that are none of `stops`
RECURSIVE runEnd(_, _, _)
runEnd(url, k, stops) ==
    IF k <= Len(url) /\ url[k] \notin stops THEN runEnd(url, k + 1, stops) ELSE k

\* The pattern \/folders\/([^/?]+) tried at position k and then further
\* right; the result is the captured group, or null
RECURSIVE matchFrom(_, _, _)
matchFrom(url, k, stops) ==
    IF k + 3 > Len(url) THEN null
    ELSE IF /\ url[k] = "/" /\ url[k + 1] = "folders" /\ url[k + 2] = "/"
            /\ runEnd(url, k + 3, stops) > k + 3
         THEN Some(join(SubSeq(url, k + 3, runEnd(url, k + 3, stops) - 1)))
         ELSE matchFrom(url, k + 1, stops)

folderIdMatch_throughQuery(savedUrl) == matchFrom(savedUrl, 1, {"/"})

\* savedUrl.match(/\/folders\/([^/?]+)/)
folderIdMatch(savedUrl) == matchFrom(savedUrl, 1, {"/", "?"})

\* JSON.stringify of an array of strings
JSON_stringifyArray(ids) == <<"[">> \o ids \o <<"]">>

\* JSON.parse of a stored text: the array, or null when JSON.parse throws
JSON_parseArray(text) ==
    IF Len(text) >= 2 /\ text[1] = "[" /\ text[Len(text)] = "]"
    THEN Some(SubSeq(text, 2, Len(text) - 1))
    ELSE null

\* What the App keeps in localStorage for the photo side
NoSettings == [shared_moments_folder_url |-> null, selected_folders |-> null]

----------------------------------------------------------------------------
(* GoogleDriveService *)

\* The files a Drive folder listing can name: two images and a document
DriveFiles ==
    { [id |-> "A", mimeType |-> <<"image/", "jpeg">>, webContentLink |-> Some("dl=A")],
      [id |-> "B", mimeType |-> <<"image/", "png">>, webContentLink |-> null],
      [id |-> "P", mimeType |-> <<"application/", "pdf">>,
       webContentLink |-> Some("dl=P")] }

\* What the files endpoint can answer to a photo listing: a non-OK status, or
\* a page of files
DriveResponses ==
    {[ok |-> FALSE, files |-> << >>]} \cup
    {[ok |-> TRUE, files |-> fs] : fs \in SeqsUpTo(DriveFiles, MaxFiles)}

\* A selection entry that is a folder URL instead of a folder id
UrlFormId == "https://drive.example.com/drive/folders/sub1?usp=sharing"

\* What the files endpoint can answer to a folder listing: a non-OK status, or
\* the ids of the sub-folders
FolderResponses ==
    { [ok |-> FALSE, files |-> << >>],
      [ok |-> TRUE, files |-> << >>],
      [ok |-> TRUE, files |-> <<"sub1">>] }

makeDriveRequest_noGuard(token) == "fetch"

\* makeDriveRequest, up to the fetch: it throws when no token is set
makeDriveRequest(token) == IF ~Truthy(token) THEN "throw" ELSE "fetch"

\* listPhotosInFolder: the folder id the query names
\* (folderId.includes('folders/') ? folderId.split('folders/')[1].split('?')[0])
extractFolderId(folderId) == IF folderId = UrlFormId THEN "sub1" ELSE folderId

toPhoto_tokenInThumbnail(file, token) ==
    [id             |-> file.id,
     mimeType       |-> file.mimeType,
     thumbnailLink  |-> <<"https://drive.google.com/thumbnail?id=", file.id,
                          "&sz=w800", "&access_token=", token>>,
     webContentLink |-> IF Truthy(file.webContentLink)
                        THEN Some(<<file.webContentLink[1], "&access_token=", token>>)
                        ELSE null]

\* listPhotosInFolder: the photo made of one file of the response
toPhoto(file, token) ==
    [id             |-> file.id,
     mimeType       |-> file.mimeType,
     thumbnailLink  |-> <<"https://drive.google.com/thumbnail?id=", file.id,
                          "&sz=w800">>,
     webContentLink |-> IF Truthy(file.webContentLink)
                        THEN Some(<<file.webContentLink[1], "&access_token=", token>>)
                        ELSE null]

\* file.mimeType.startsWith('image/')
isImage(file) == file.mimeType[1] = "image/"

\* response.files.filter(isImage).map(toPhoto)
RECURSIVE photosOf(_, _)
photosOf(files, token) ==
    IF files = << >> THEN << >>
    ELSE (IF isImage(Head(files)) THEN <<toPhoto(Head(files), token)>> ELSE << >>)
         \o photosOf(Tail(files), token)

\* How a call of listPhotosInFolder or listFoldersInFolder ends: with a list,
\* or with the error it throws
Thrown(message) == [ok |-> FALSE, error |-> message, list |-> << >>]

Returned(list) == [ok |-> TRUE, error |-> "", list |-> list]

\* listPhotosInFolder, from the response of the files endpoint on
listPhotosInFolder(response, token) ==
    IF response.ok THEN Returned(photosOf(response.files, token))
    ELSE Thrown("Google Drive API error")

\* listFoldersInFolder, from the response of the files endpoint on
listFoldersInFolder(response) ==
    IF response.ok THEN Returned(response.files)
    ELSE Thrown("Google Drive API error")

----------------------------------------------------------------------------
(* loadPhotosFromDrive (App.tsx): one aggregation pass.  The record of a   *)
(* pass holds the locals of the call (folderIds, rootFolderId, allPhotos)  *)
(* and what the call did so far: the ids it passed to listPhotosInFolder,  *)
(* the folders it sent a request for, how each listing call ended, and the *)
(* lists it handed to setDrivePhotos.                                      *)

\* A stored string that is not the empty string
TruthyText(x) == x # null /\ x[1] # << >>

NoPass ==
    [pc |-> "none", url |-> null, read |-> null, folderIds |-> << >>,
     rootFolderId |-> "", allPhotos |-> << >>, called |-> << >>,
     requested |-> << >>, results |-> << >>, published |-> << >>,
     failure |-> ""]

NoUrlConfigured == "No shared folder URL configured. Please set it in Settings."

InvalidFolderUrl == "Invalid folder URL format."

FailedToLoad ==
    "Failed to load photos from Google Drive. Please check your folder permissions."

\* selectedFolders ? JSON.parse(selectedFolders) : ['root']; null when
\* JSON.parse throws
targetFolderIds(selectedFolders) ==
    IF TruthyText(selectedFolders) THEN JSON_parseArray(selectedFolders[1])
    ELSE Some(<<"root">>)

actualFolderId_asIs(folderId, rootFolderId) == folderId

\* folderId === 'root' ? rootFolderId : folderId
actualFolderId(folderId, rootFolderId) ==
    IF folderId = "root" THEN rootFolderId ELSE folderId

\* The call from its first statement to the loop: the early returns and the
\* outer catch end the pass with a message
beginPass(storage) ==
    LET savedUrl        == getItem(storage, "shared_moments_folder_url")
        selectedFolders == getItem(storage, "selected_folders")
        started         == [NoPass EXCEPT !.pc = "done", !.url = savedUrl,
                                          !.read = selectedFolders]
    IN  IF ~TruthyText(savedUrl)
        THEN [started EXCEPT !.failure = NoUrlConfigured]
        ELSE IF targetFolderIds(selectedFolders) = null
        THEN [started EXCEPT !.failure = FailedToLoad]
        ELSE IF folderIdMatch(savedUrl[1]) = null
        THEN [started EXCEPT !.folderIds = targetFolderIds(selectedFolders)[1],
                             !.failure = InvalidFolderUrl]
        ELSE [started EXCEPT !.pc = "loop",
                             !.folderIds = targetFolderIds(selectedFolders)[1],
                             !.rootFolderId = folderIdMatch(savedUrl[1])[1]]

\* self.findIndex(p => p.id === id)
findIndex(self, id) ==
    CHOOSE i \in 1..Len(self) :
        self[i].id = id /\ \A j \in 1..(i - 1) : self[j].id # id

RECURSIVE filterFrom(_, _)
filterFrom(self, index) ==
    IF index > Len(self) THEN << >>
    ELSE (IF index = findIndex(self, self[index].id) THEN <<self[index]>>
          ELSE << >>) \o filterFrom(self, index + 1)

uniquePhotos_all(allPhotos) == allPhotos

\* A filter that keeps the last photo of each id instead of the first
uniquePhotos_keepLast(allPhotos) ==
    LET kept == {i \in 1..Len(allPhotos) :
                    \A j \in (i + 1)..Len(allPhotos) :
                        allPhotos[j].id # allPhotos[i].id}
        nth[n \in 0..Cardinality(kept)] ==
            IF n = 0 THEN 0
            ELSE CHOOSE i \in kept : i > nth[n - 1] /\
                     \A j \in kept : j > nth[n - 1] => i <= j
    IN  [n \in 1..Cardinality(kept) |-> allPhotos[nth[n]]]

\* allPhotos.filter((photo, index, self) =>
\*     index === self.findIndex(p => p.id === photo.id))
uniquePhotos(allPhotos) == filterFrom(allPhotos, 1)

\* A loop body that lets the error of a listing call escape to the outer catch
afterListing_abort(p, outcome) ==
    IF outcome.ok
    THEN [p EXCEPT !.allPhotos = @ \o outcome.list, !.results = Append(@, outcome)]
    ELSE [p EXCEPT !.results = Append(@, outcome), !.pc = "done",
                   !.failure = FailedToLoad]

\* A loop body that hands what it has to setDrivePhotos after every folder
afterListing_publishing(p, outcome) ==
    LET all == IF outcome.ok THEN p.allPhotos \o outcome.list ELSE p.allPhotos
    IN  [p EXCEPT !.allPhotos = all, !.results = Append(@, outcome),
                  !.published = Append(@, uniquePhotos(all))]

\* The loop body after the await: the photos are appended, or the catch
\* block logs the error
afterListing(p, outcome) ==
    IF outcome.ok
    THEN [p EXCEPT !.allPhotos = @ \o outcome.list, !.results = Append(@, outcome)]
    ELSE [p EXCEPT !.results = Append(@, outcome)]

\* The statements after the loop: setDrivePhotos(uniquePhotos)
publish(p) ==
    [p EXCEPT !.pc = "done", !.published = Append(@, uniquePhotos(p.allPhotos))]

\* The loop, run until a listing call has a request outstanding or the pass
\* has ended; a call made without a token throws before any request
RECURSIVE runLoop(_, _)
runLoop(p, token) ==
    IF p.pc = "done" THEN p
    ELSE IF Len(p.results) = Len(p.folderIds) THEN publish(p)
    ELSE LET folderId == actualFolderId(p.folderIds[Len(p.results) + 1],
                                        p.rootFolderId)
             calling  == [p EXCEPT !.called = Append(@, folderId)]
         IN  IF makeDriveRequest(token) = "throw"
             THEN runLoop(afterListing(calling,
                                       Thrown("No access token available")),
                          token)
             ELSE [calling EXCEPT !.pc = "listing",
                                  !.requested = Append(@, extractFolderId(folderId))]

----------------------------------------------------------------------------
(* SettingsDialog: the folder selection *)

\* The component's state before the dialog is first shown.  foldersCall is
\* the last call of listFoldersInFolder: where it is, the folder it sent a
\* request for, and how it ended.  edited says that the user has changed
\* the selection.
ClosedDialog ==
    [visible |-> FALSE, sharedFolderUrl |-> << >>, folders |-> << >>,
     selectedFolders |-> << >>, isLoadingFolders |-> FALSE,
     foldersCall |-> [pc |-> "none", requested |-> null, outcome |-> null],
     edited |-> FALSE]

Range(s) == {s[i] : i \in 1..Len(s)}

\* prev.filter(id => id !== folderId)
RECURSIVE without(_, _)
without(prev, folderId) ==
    IF prev = << >> THEN << >>
    ELSE (IF Head(prev) # folderId THEN <<Head(prev)>> ELSE << >>)
         \o without(Tail(prev), folderId)

handleFolderToggle_storesPrev(prev, folderId, storage) ==
    LET newSelection == IF folderId \in Range(prev) THEN without(prev, folderId)
                        ELSE Append(prev, folderId)
    IN  [selection |-> newSelection,
         storage   |-> setItem(storage, "selected_folders",
                               JSON_stringifyArray(prev))]

\* handleFolderToggle: the new selection and the storage it leaves
handleFolderToggle(prev, folderId, storage) ==
    LET newSelection == IF folderId \in Range(prev) THEN without(prev, folderId)
                        ELSE Append(prev, folderId)
    IN  [selection |-> newSelection,
         storage   |-> setItem(storage, "selected_folders",
                               JSON_stringifyArray(newSelection))]

\* handleSelectAllFolders
handleSelectAllFolders(folders, storage) ==
    LET allFolderIds == <<"root">> \o folders
    IN  [selection |-> allFolderIds,
         storage   |-> setItem(storage, "selected_folders",
                               JSON_stringifyArray(allFolderIds))]

\* handleDeselectAllFolders
handleDeselectAllFolders(storage) ==
    [selection |-> << >>,
     storage   |-> setItem(storage, "selected_folders", JSON_stringifyArray(<< >>))]

----------------------------------------------------------------------------
(* SettingsDialog: the folder URL *)

\* A folder URL as the placeholder of the input shows it
GoogleFolderUrl ==
    <<"https:", "/", "/", "drive.google.com", "/", "drive", "/", "folders", "/",
      "XYZ123", "?", "usp=sharing">>

\* What the user can have typed into the input: nothing, blanks, a folder
\* URL, the same between blanks, the URL cut after "folders/", the URL with
\* the query right after "folders/", a URL of another host, the Drive home
TypedUrls ==
    { << >>,
      <<" ">>,
      GoogleFolderUrl,
      <<" ">> \o GoogleFolderUrl \o <<" ">>,
      SubSeq(GoogleFolderUrl, 1, 9),
      SubSeq(GoogleFolderUrl, 1, 9) \o <<"?", "usp=sharing">>,
      SharingUrl,
      DriveHomeUrl }

\* sharedFolderUrl.trim()
RECURSIVE trim(_)
trim(text) ==
    IF text = << >> THEN << >>
    ELSE IF Head(text) = " " THEN trim(Tail(text))
    ELSE IF text[Len(text)] = " " THEN trim(SubSeq(text, 1, Len(text) - 1))
    ELSE text

\* url.includes(part)
includes(url, part) ==
    \E k \in 1..(Len(url) - Len(part) + 1) :
        SubSeq(url, k, k + Len(part) - 1) = part

\* handleSaveUrl: the storage it leaves; each of the three tests ends the
\* call with an alert
handleSaveUrl(sharedFolderUrl, authenticated, storage) ==
    LET url == trim(sharedFolderUrl)
    IN  IF url = << >> THEN storage
        ELSE IF ~authenticated THEN storage
        ELSE IF ~includes(url, <<"drive.google.com", "/", "drive", "/",
                                 "folders", "/">>)
        THEN storage
        ELSE setItem(storage, "shared_moments_folder_url", url)

----------------------------------------------------------------------------
(* The slideshow (App.tsx): the photo on the screen and the advance timer. *)
(* React renders with the new state first and runs the effects after the   *)
(* render: rendered is what that render was given, the other variables are *)
(* the state the effects have left.                                        *)

\* samplePhotos.length
SamplePhotos == 5

\* displayPhotos.length: the drive photos when there are some, else the samples
displayLength(photos) == IF Len(photos) > 0 THEN Len(photos) ELSE SamplePhotos

\* The intervals of the advance timer: live are the intervals setInterval
\* has made and clearInterval has not cleared, mine is the `interval` of the
\* effect that ran last, last is the id setInterval gave last (the ids are
\* 0 and 1 in turn), and length is drivePhotos.length in the callback's closure
NoTimer == [live |-> {}, mine |-> null, last |-> 0, length |-> 0]

\* The cleanup of the effect: clearInterval(interval)
clearInterval(t) ==
    [t EXCEPT !.live = IF t.mine = null THEN @ ELSE @ \ {t.mine[1]}]

\* The body of the effect: an interval is made when the slideshow is playing
\* and there are drive photos
advanceEffect(t, playing, length) ==
    IF playing /\ length > 0
    THEN [t EXCEPT !.live = @ \cup {1 - t.last}, !.mine = Some(1 - t.last),
                   !.last = 1 - t.last, !.length = length]
    ELSE [t EXCEPT !.mine = null]

timerEffect_noCleanup(t, deps, newDeps) ==
    IF newDeps = deps THEN t
    ELSE advanceEffect(t, newDeps[1], newDeps[2])

\* useEffect(..., [isPlaying, drivePhotos.length]): when a dependency has
\* changed, the cleanup of the last run, then the body
timerEffect(t, deps, newDeps) ==
    IF newDeps = deps THEN t
    ELSE advanceEffect(clearInterval(t), newDeps[1], newDeps[2])

\* The effect that resets the index (dependencies drivePhotos.length and
\* currentPhotoIndex)
resetIndex(index, length) ==
    IF length = 0 THEN 0
    ELSE IF index >= length \/ index < 0 THEN 0
    ELSE index

\* React applies the state updates of a handler: the render, then the effects
reactCommit(photos, playing, index) ==
    /\ rendered' = [index |-> index, count |-> displayLength(photos)]
    /\ currentPhotoIndex' = resetIndex(index, Len(photos))
    /\ isPlaying' = playing
    /\ timer' = timerEffect(timer, <<isPlaying, Len(drivePhotos)>>,
                            <<playing, Len(photos)>>)

\* nextPhoto: the index setCurrentPhotoIndex is given
nextIndex(prev, length) ==
    LET newIndex == (prev + 1) % length
    IN  IF newIndex >= 0 /\ newIndex < length THEN newIndex ELSE 0

\* prevPhoto: the index setCurrentPhotoIndex is given
prevIndex(prev, length) ==
    LET newIndex == (prev - 1 + length) % length
    IN  IF newIndex >= 0 /\ newIndex < length THEN newIndex ELSE 0

\* No sign-out call is running (the asynchronous-storage build)
NoCall == [clear |-> "none", signOut |-> "none", signIn |-> "none"]

----------------------------------------------------------------------------
(* The state before the page is first loaded.  localStorage outlives the   *)
(* process, so what an earlier run, the callback page or an interrupted    *)
(* writer left in it is an input: each key is present or absent.           *)

Init ==
    /\ localStorage \in
         [temp_auth_code        : {null, Some("1")},
          oauth_completion_time : {null, Some("0"), Some("abc")},
          google_auth_user      : {null, Some(JSON_stringify(
                                      [id |-> "1", email |-> "a@x", name |-> "A",
                                       photo |-> "pic"]))},
          google_auth_token     : {null, Some("t1")}]
    /\ env \in [REACT_APP_GOOGLE_CLIENT_ID     : {null, Some("cid")},
                REACT_APP_GOOGLE_CLIENT_SECRET : {null, Some("sec")}]
    /\ now = 0
    /\ page = "closed"
    /\ currentUser = null
    /\ accessToken = null
    /\ driveToken = null
    /\ exchange = Idle
    /\ tokenRequests = [c \in Codes |-> 0]
    /\ nextCode = 2
    /\ before = [user |-> null, token |-> null, lister |-> null,
                 storedUser |-> localStorage.google_auth_user,
                 storedToken |-> localStorage.google_auth_token]
    /\ lastOp = [at |-> 0, op |-> "none", outcome |-> "none"]
    /\ appStorage = NoSettings
    /\ pass = NoPass
    /\ drivePhotos = << >>
    /\ photoError = null
    /\ isLoadingPhotos = FALSE
    /\ dialog = ClosedDialog
    /\ isAuthenticated = FALSE
    /\ isPlaying = TRUE
    /\ currentPhotoIndex = 0
    /\ timer = NoTimer
    /\ rendered = [index |-> 0, count |-> SamplePhotos]
    /\ earlierPass = NoPass
    /\ signOutCall = NoCall

----------------------------------------------------------------------------
(* Actions *)

\* The page is (re)loaded: the module is evaluated, `new GoogleAuthService()`
\* and `new GoogleDriveService()` run; a call suspended in the old page is gone
Start ==
    LET check  == checkForOAuthCompletion(localStorage, now)
        sends  == Truthy(check.code) /\ sendsTokenRequest
        loaded == loadStoredAuth(check.ls)
    IN  /\ page' = "app"
        /\ localStorage' = check.ls
        /\ currentUser' = loaded.user
        /\ accessToken' = loaded.token
        /\ driveToken' = loaded.lister
        /\ exchange' = IF sends THEN [pc |-> "awaitToken", code |-> check.code[1]]
                       ELSE Idle
        /\ tokenRequests' =
             IF sends /\ check.code[1] \in Codes
             THEN [tokenRequests EXCEPT ![check.code[1]] = @ + 1]
             ELSE tokenRequests
        /\ before' = [user |-> loaded.user, token |-> loaded.token,
                      lister |-> loaded.lister,
                      storedUser |-> check.ls.google_auth_user,
                      storedToken |-> check.ls.google_auth_token]
        /\ lastOp' = [at |-> now, op |-> "start",
                      outcome |-> IF sends THEN "exchange"
                                  ELSE IF Truthy(check.code) THEN "noCredentials"
                                  ELSE "noExchange"]
        /\ UNCHANGED <<env, now, nextCode>>
        /\ UNCHANGED photoVars

\* signIn()
SignIn ==
    LET authUrl == buildAuthUrl
        ls      == removeAttempt(localStorage)
    IN  /\ page = "app"
        /\ currentUser' = null
        /\ accessToken' = null
        /\ localStorage' = ls
        /\ page' = IF authUrl = null THEN "app" ELSE "idp"
        /\ before' = [user |-> null, token |-> null, lister |-> driveToken,
                      storedUser |-> ls.google_auth_user,
                      storedToken |-> ls.google_auth_token]
        /\ lastOp' = [at |-> now, op |-> "signIn",
                      outcome |-> IF authUrl = null THEN "error" ELSE "redirect"]
        /\ UNCHANGED <<env, now, driveToken, exchange, tokenRequests, nextCode>>
        /\ UNCHANGED photoVars

\* signOut()
SignOut ==
    LET ls == removeAttempt(clearStoredAuth(localStorage))
    IN  /\ page = "app"
        /\ localStorage' = ls
        /\ currentUser' = null
        /\ accessToken' = null
        /\ before' = [user |-> null, token |-> null, lister |-> driveToken,
                      storedUser |-> ls.google_auth_user,
                      storedToken |-> ls.google_auth_token]
        /\ lastOp' = [at |-> now, op |-> "signOut", outcome |-> "done"]
        /\ UNCHANGED <<env, now, page, driveToken, exchange, tokenRequests, nextCode>>
        /\ UNCHANGED photoVars

\* processAuthCode resumes with the token endpoint's response (a rejected
\* fetch ends in the catch block, which changes as little as a non-OK response)
TokenResponse ==
    /\ page = "app"
    /\ exchange.pc = "awaitToken"
    /\ \/ /\ exchange' = Idle
          /\ lastOp' = [at |-> now, op |-> "processAuthCode", outcome |-> "tokenFailed"]
          /\ UNCHANGED accessToken
       \/ \E access_token \in Tokens :
            /\ accessToken' = Some(access_token)
            /\ exchange' = [exchange EXCEPT !.pc = "awaitProfile"]
            /\ lastOp' = [at |-> now, op |-> "processAuthCode", outcome |-> "tokenReceived"]
    /\ UNCHANGED <<localStorage, env, now, page, currentUser, driveToken,
                   tokenRequests, nextCode, before>>
    /\ UNCHANGED photoVars

\* processAuthCode resumes with the profile endpoint's response
ProfileResponse ==
    /\ page = "app"
    /\ exchange.pc = "awaitProfile"
    /\ exchange' = Idle
    /\ \/ /\ lastOp' = [at |-> now, op |-> "processAuthCode", outcome |-> "profileFailed"]
          /\ UNCHANGED <<localStorage, currentUser, accessToken, driveToken>>
       \/ \E userInfo \in UserInfos :
            LET realUser == [id |-> userInfo.id, email |-> userInfo.email,
                             name |-> userInfo.name, photo |-> userInfo.picture]
                set == setAuthenticatedUser(realUser, accessToken, driveToken,
                                            localStorage)
            IN  /\ currentUser' = set.user
                /\ accessToken' = set.token
                /\ driveToken' = set.lister
                /\ localStorage' = set.ls
                /\ lastOp' = [at |-> now, op |-> "processAuthCode", outcome |-> "signedIn"]
    /\ UNCHANGED <<env, now, page, tokenRequests, nextCode, before>>
    /\ UNCHANGED photoVars

\* The identity provider redirects to auth-callback.html, which records the
\* authorization attempt
Callback ==
    /\ page = "idp"
    /\ nextCode <= MaxCodes
    /\ localStorage' = setItem(setItem(localStorage, "temp_auth_code",
                                       ToString(nextCode)),
                               "oauth_completion_time", ToString(now))
    /\ nextCode' = nextCode + 1
    /\ lastOp' = [at |-> now, op |-> "callback", outcome |-> "stored"]
    /\ UNCHANGED <<env, now, page, currentUser, accessToken, driveToken,
                   exchange, tokenRequests, before>>
    /\ UNCHANGED photoVars

\* Time passes
Tick ==
    /\ \E t \in Instants : t > now /\ now' = t
    /\ UNCHANGED <<localStorage, env, page, currentUser, accessToken, driveToken,
                   exchange, tokenRequests, nextCode, before, lastOp>>
    /\ UNCHANGED photoVars

Next ==
    \/ Start
    \/ SignIn
    \/ SignOut
    \/ TokenResponse
    \/ ProfileResponse
    \/ Callback
    \/ Tick

Spec == Init /\ [][Next]_vars

----------------------------------------------------------------------------
(* The earlier build of the service (services/GoogleAuthService.ts): the   *)
(* session lives in memory only, and a missing client id or secret is      *)
(* replaced by a placeholder.  checkForOAuthCompletion and the handling of *)
(* the token response are the same code as above.                          *)

\* buildAuthUrl: the URL's client_id parameter
buildAuthUrl_legacy ==
    LET clientId == env.REACT_APP_GOOGLE_CLIENT_ID
    IN  Some(IF Truthy(clientId) THEN clientId[1] ELSE "YOUR_CLIENT_ID")

\* The page is (re)loaded: the constructor runs checkForOAuthCompletion only
LegacyStart ==
    LET check == checkForOAuthCompletion(localStorage, now)
        sends == Truthy(check.code)
    IN  /\ page' = "app"
        /\ localStorage' = check.ls
        /\ currentUser' = null
        /\ accessToken' = null
        /\ driveToken' = null
        /\ exchange' = IF sends THEN [pc |-> "awaitToken", code |-> check.code[1]]
                       ELSE Idle
        /\ tokenRequests' =
             IF sends /\ check.code[1] \in Codes
             THEN [tokenRequests EXCEPT ![check.code[1]] = @ + 1]
             ELSE tokenRequests
        /\ before' = [user |-> null, token |-> null, lister |-> null,
                      storedUser |-> check.ls.google_auth_user,
                      storedToken |-> check.ls.google_auth_token]
        /\ lastOp' = [at |-> now, op |-> "start",
                      outcome |-> IF sends THEN "exchange" ELSE "noExchange"]
        /\ UNCHANGED <<env, now, nextCode>>
        /\ UNCHANGED photoVars

\* signIn()
LegacySignIn ==
    LET authUrl == buildAuthUrl_legacy
        ls      == removeAttempt(localStorage)
    IN  /\ page = "app"
        /\ currentUser' = null
        /\ accessToken' = null
        /\ localStorage' = ls
        /\ page' = IF authUrl = null THEN "app" ELSE "idp"
        /\ before' = [user |-> null, token |-> null, lister |-> driveToken,
                      storedUser |-> ls.google_auth_user,
                      storedToken |-> ls.google_auth_token]
        /\ lastOp' = [at |-> now, op |-> "signIn",
                      outcome |-> IF authUrl = null THEN "error" ELSE "redirect"]
        /\ UNCHANGED <<env, now, driveToken, exchange, tokenRequests, nextCode>>
        /\ UNCHANGED photoVars

\* signOut()
LegacySignOut ==
    LET ls == removeAttempt(localStorage)
    IN  /\ page = "app"
        /\ localStorage' = ls
        /\ currentUser' = null
        /\ accessToken' = null
        /\ before' = [user |-> null, token |-> null, lister |-> driveToken,
                      storedUser |-> ls.google_auth_user,
                      storedToken |-> ls.google_auth_token]
        /\ lastOp' = [at |-> now, op |-> "signOut", outcome |-> "done"]
        /\ UNCHANGED <<env, now, page, driveToken, exchange, tokenRequests, nextCode>>
        /\ UNCHANGED photoVars

\* processAuthCode resumes with the profile endpoint's response
LegacyProfileResponse ==
    /\ page = "app"
    /\ exchange.pc = "awaitProfile"
    /\ exchange' = Idle
    /\ \/ /\ lastOp' = [at |-> now, op |-> "processAuthCode", outcome |-> "profileFailed"]
          /\ UNCHANGED <<currentUser, driveToken>>
       \/ \E userInfo \in UserInfos :
            /\ currentUser' = Some([id |-> userInfo.id, email |-> userInfo.email,
                                    name |-> userInfo.name,
                                    photo |-> userInfo.picture])
            /\ driveToken' = IF Truthy(accessToken) THEN accessToken ELSE driveToken
            /\ lastOp' = [at |-> now, op |-> "processAuthCode", outcome |-> "signedIn"]
    /\ UNCHANGED <<localStorage, env, now, page, accessToken, tokenRequests,
                   nextCode, before>>
    /\ UNCHANGED photoVars

NextLegacy ==
    \/ LegacyStart
    \/ LegacySignIn
    \/ LegacySignOut
    \/ TokenResponse
    \/ LegacyProfileResponse
    \/ Callback
    \/ Tick

SpecLegacy == Init /\ [][NextLegacy]_vars

----------------------------------------------------------------------------
(* The signed-in App: aggregation passes and the settings dialog.  One     *)
(* pass runs at a time: what starts a pass waits until the listing call of *)
(* the running pass has ended.                                             *)

\* loadPhotosFromDrive up to its first await (or to its end, when no call
\* sends a request), with the state updates React applies
loadPhotosFromDrive(storage) ==
    LET p == runLoop(beginPass(storage), driveToken)
    IN  /\ pass' = p
        /\ isLoadingPhotos' = (p.pc = "listing")
        /\ photoError' = IF p.failure # "" THEN Some(p.failure) ELSE null
        /\ drivePhotos' = IF p.published # << >>
                          THEN p.published[Len(p.published)] ELSE drivePhotos
        /\ reactCommit(drivePhotos', isPlaying, currentPhotoIndex)

\* What the App shows in the photo area (renderPhotoContent)
renderPhotoContent ==
    IF isLoadingPhotos THEN "loading"
    ELSE IF photoError # null THEN "errorWithRetry"
    ELSE "photos"

\* A pass is started by the effect on isAuthenticated or by the Retry button
LoadPhotos ==
    /\ page = "app"
    /\ pass.pc # "listing"
    /\ isAuthenticated
    /\ loadPhotosFromDrive(appStorage)
    /\ UNCHANGED <<appStorage, dialog, sessionVars>>
    /\ UNCHANGED authVars

\* The files endpoint answers the outstanding listing call of the pass (a
\* rejected fetch ends like a non-OK status); the loop goes on
ListingResponse ==
    /\ pass.pc = "listing"
    /\ \E response \in DriveResponses :
         LET outcome == listPhotosInFolder(response, String(driveToken))
             p       == runLoop(afterListing(pass, outcome), driveToken)
         IN  /\ pass' = p
             /\ isLoadingPhotos' = (p.pc = "listing")
             /\ photoError' = IF p.failure # "" THEN Some(p.failure) ELSE photoError
             /\ drivePhotos' = IF p.published # << >>
                               THEN p.published[Len(p.published)] ELSE drivePhotos
             /\ reactCommit(drivePhotos', isPlaying, currentPhotoIndex)
    /\ UNCHANGED <<appStorage, dialog, sessionVars>>
    /\ UNCHANGED authVars

\* The settings dialog is shown to the signed-in user: loadSavedUrl,
\* loadFolders up to its await, loadSelectedFolders
OpenSettings ==
    LET savedUrl == getItem(appStorage, "shared_moments_folder_url")
        saved    == getItem(appStorage, "selected_folders")
        match    == IF TruthyText(savedUrl) THEN folderIdMatch(savedUrl[1]) ELSE null
        call     == IF match = null
                    THEN [pc |-> "none", requested |-> null, outcome |-> null]
                    ELSE IF makeDriveRequest(driveToken) = "throw"
                    THEN [pc |-> "done", requested |-> null,
                          outcome |-> Some(Thrown("No access token available"))]
                    ELSE [pc |-> "awaiting", requested |-> match, outcome |-> null]
    IN  /\ page = "app"
        /\ isAuthenticated
        /\ ~dialog.visible
        /\ dialog.foldersCall.pc # "awaiting"
        /\ dialog' = [dialog EXCEPT
                        !.visible = TRUE,
                        !.sharedFolderUrl = IF TruthyText(savedUrl) THEN savedUrl[1]
                                            ELSE @,
                        !.selectedFolders =
                            IF TruthyText(saved) /\ JSON_parseArray(saved[1]) # null
                            THEN JSON_parseArray(saved[1])[1] ELSE @,
                        !.isLoadingFolders = (call.pc = "awaiting"),
                        !.foldersCall = call]
        /\ UNCHANGED <<appStorage, pass, drivePhotos, photoError, isLoadingPhotos,
                       slideVars, sessionVars>>
        /\ UNCHANGED authVars

\* onClose
CloseSettings ==
    /\ dialog.visible
    /\ dialog' = [dialog EXCEPT !.visible = FALSE]
    /\ UNCHANGED <<appStorage, pass, drivePhotos, photoError, isLoadingPhotos,
                       slideVars, sessionVars>>
    /\ UNCHANGED authVars

\* The files endpoint answers the folder listing of loadFolders
FoldersResponse ==
    /\ dialog.foldersCall.pc = "awaiting"
    /\ \E response \in FolderResponses :
         LET outcome == listFoldersInFolder(response)
         IN  /\ dialog' = [dialog EXCEPT
                             !.folders = IF outcome.ok THEN outcome.list ELSE @,
                             !.isLoadingFolders = FALSE,
                             !.foldersCall = [@ EXCEPT !.pc = "done",
                                                       !.outcome = Some(outcome)]]
    /\ UNCHANGED <<appStorage, pass, drivePhotos, photoError, isLoadingPhotos,
                       slideVars, sessionVars>>
    /\ UNCHANGED authVars

\* A folder's checkbox is pressed: handleFolderToggle, then the effect on
\* selectedFoldersVersion starts a pass
ToggleFolder ==
    /\ dialog.visible
    /\ isAuthenticated
    /\ pass.pc # "listing"
    /\ \E folderId \in {"root"} \cup Range(dialog.folders) :
         LET toggled == handleFolderToggle(dialog.selectedFolders, folderId,
                                           appStorage)
         IN  /\ dialog' = [dialog EXCEPT !.selectedFolders = toggled.selection,
                                         !.edited = TRUE]
             /\ appStorage' = toggled.storage
             /\ loadPhotosFromDrive(toggled.storage)
    /\ UNCHANGED sessionVars
    /\ UNCHANGED authVars

\* "Select All" is pressed
SelectAllFolders ==
    LET all == handleSelectAllFolders(dialog.folders, appStorage)
    IN  /\ dialog.visible
        /\ isAuthenticated
        /\ pass.pc # "listing"
        /\ dialog' = [dialog EXCEPT !.selectedFolders = all.selection,
                                    !.edited = TRUE]
        /\ appStorage' = all.storage
        /\ loadPhotosFromDrive(all.storage)
        /\ UNCHANGED sessionVars
        /\ UNCHANGED authVars

\* "Deselect All" is pressed
DeselectAllFolders ==
    LET none == handleDeselectAllFolders(appStorage)
    IN  /\ dialog.visible
        /\ isAuthenticated
        /\ pass.pc # "listing"
        /\ dialog' = [dialog EXCEPT !.selectedFolders = none.selection,
                                    !.edited = TRUE]
        /\ appStorage' = none.storage
        /\ loadPhotosFromDrive(none.storage)
        /\ UNCHANGED sessionVars
        /\ UNCHANGED authVars

\* What an earlier run can have left under 'selected_folders': nothing, the
\* empty string, arrays, and a text cut short
StoredSelections ==
    { null,
      Some(<< >>),
      Some(JSON_stringifyArray(<< >>)),
      Some(JSON_stringifyArray(<<"root", "sub1", "sub2">>)),
      Some(JSON_stringifyArray(<<UrlFormId, "root">>)),
      Some(<<"[", "sub1">>) }

\* The App after a sign-in, with or without a token in the Lister; the
\* folder URL and the selection are what earlier runs stored.  The URLs are
\* tried with the default selection, the selections with one URL, and the
\* second token with the default selection and that URL.  The user has
\* paused the slideshow.
InitAgg ==
    /\ \E token \in {null} \cup {Some(t) : t \in Tokens} :
         LET set == setAuthenticatedUser(
                        [id |-> "1", email |-> "a@x", name |-> "A", photo |-> "pic"],
                        token, null,
                        [temp_auth_code |-> null, oauth_completion_time |-> null,
                         google_auth_user |-> null, google_auth_token |-> null])
         IN  /\ localStorage = set.ls
             /\ currentUser = set.user
             /\ accessToken = set.token
             /\ driveToken = set.lister
    /\ env = [REACT_APP_GOOGLE_CLIENT_ID |-> Some("cid"),
              REACT_APP_GOOGLE_CLIENT_SECRET |-> Some("sec")]
    /\ now = 0
    /\ page = "app"
    /\ exchange = Idle
    /\ tokenRequests = [c \in Codes |-> 0]
    /\ nextCode = 2
    /\ before = Session
    /\ lastOp = [at |-> 0, op |-> "none", outcome |-> "none"]
    /\ appStorage \in [shared_moments_folder_url : {null} \cup {Some(u) : u \in Urls},
                       selected_folders : StoredSelections]
    /\ \/ appStorage.shared_moments_folder_url = Some(SharingUrl)
       \/ appStorage.selected_folders = null
    /\ \/ driveToken \in {null, Some("t1")}
       \/ appStorage = [NoSettings EXCEPT
                           !.shared_moments_folder_url = Some(SharingUrl)]
    /\ pass = NoPass
    /\ drivePhotos = << >>
    /\ photoError = null
    /\ isLoadingPhotos = FALSE
    /\ dialog = ClosedDialog
    /\ isAuthenticated = TRUE
    /\ isPlaying = FALSE
    /\ currentPhotoIndex = 0
    /\ timer = NoTimer
    /\ rendered = [index |-> 0, count |-> SamplePhotos]
    /\ earlierPass = NoPass
    /\ signOutCall = NoCall

NextAgg ==
    \/ LoadPhotos
    \/ ListingResponse
    \/ OpenSettings
    \/ CloseSettings
    \/ FoldersResponse
    \/ ToggleFolder
    \/ SelectAllFolders
    \/ DeselectAllFolders

SpecAgg == InitAgg /\ [][NextAgg]_vars

----------------------------------------------------------------------------
(* The "Connection" tab of the settings dialog: the folder URL is typed    *)
(* and saved, and passes read what was saved.                              *)

\* onChangeText={setSharedFolderUrl}
TypeUrl ==
    /\ dialog.visible
    /\ \E text \in TypedUrls :
         dialog' = [dialog EXCEPT !.sharedFolderUrl = text]
    /\ UNCHANGED <<appStorage, pass, drivePhotos, photoError, isLoadingPhotos,
                   slideVars, sessionVars>>
    /\ UNCHANGED authVars

\* "Save" is pressed
SaveUrl ==
    /\ dialog.visible
    /\ appStorage' = handleSaveUrl(dialog.sharedFolderUrl, isAuthenticated,
                                   appStorage)
    /\ UNCHANGED <<pass, drivePhotos, photoError, isLoadingPhotos, dialog,
                   slideVars, sessionVars>>
    /\ UNCHANGED authVars

\* The App after the first sign-in: nothing is stored for the photo side
InitSettings ==
    /\ LET set == setAuthenticatedUser(
                      [id |-> "1", email |-> "a@x", name |-> "A", photo |-> "pic"],
                      Some("t1"), null,
                      [temp_auth_code |-> null, oauth_completion_time |-> null,
                       google_auth_user |-> null, google_auth_token |-> null])
       IN  /\ localStorage = set.ls
           /\ currentUser = set.user
           /\ accessToken = set.token
           /\ driveToken = set.lister
    /\ env = [REACT_APP_GOOGLE_CLIENT_ID |-> Some("cid"),
              REACT_APP_GOOGLE_CLIENT_SECRET |-> Some("sec")]
    /\ now = 0
    /\ page = "app"
    /\ exchange = Idle
    /\ tokenRequests = [c \in Codes |-> 0]
    /\ nextCode = 2
    /\ before = Session
    /\ lastOp = [at |-> 0, op |-> "none", outcome |-> "none"]
    /\ appStorage = NoSettings
    /\ pass = NoPass
    /\ drivePhotos = << >>
    /\ photoError = null
    /\ isLoadingPhotos = FALSE
    /\ dialog = ClosedDialog
    /\ isAuthenticated = TRUE
    /\ isPlaying = FALSE
    /\ currentPhotoIndex = 0
    /\ timer = NoTimer
    /\ rendered = [index |-> 0, count |-> SamplePhotos]
    /\ earlierPass = NoPass
    /\ signOutCall = NoCall

NextSettings ==
    \/ OpenSettings
    \/ CloseSettings
    \/ FoldersResponse
    \/ TypeUrl
    \/ SaveUrl
    \/ LoadPhotos
    \/ ListingResponse

SpecSettings == InitSettings /\ [][NextSettings]_vars

----------------------------------------------------------------------------
(* Passes that overlap, and the sign-out of the App.  A call of            *)
(* loadPhotosFromDrive is not cancelled by a later call or by the          *)
(* sign-out: it goes on with its own locals and calls the same setters.    *)
(* At most two calls are in flight: the one started last (pass) and the    *)
(* one it has overtaken (earlierPass).                                     *)

\* A folder's checkbox is pressed while the listing call of a pass is
\* outstanding: handleFolderToggle, then the effect on selectedFoldersVersion
\* starts the next pass
ToggleFolderWhileListing ==
    /\ dialog.visible
    /\ isAuthenticated
    /\ pass.pc = "listing"
    /\ earlierPass.pc # "listing"
    /\ \E folderId \in {"root"} \cup Range(dialog.folders) :
         LET toggled == handleFolderToggle(dialog.selectedFolders, folderId,
                                           appStorage)
         IN  /\ dialog' = [dialog EXCEPT !.selectedFolders = toggled.selection,
                                         !.edited = TRUE]
             /\ appStorage' = toggled.storage
             /\ earlierPass' = pass
             /\ loadPhotosFromDrive(toggled.storage)
    /\ UNCHANGED <<isAuthenticated, signOutCall>>
    /\ UNCHANGED authVars

\* The files endpoint answers the outstanding listing call of the overtaken
\* pass; the loop goes on, and at its end the pass hands its list to
\* setDrivePhotos and sets isLoadingPhotos to false
EarlierListingResponse ==
    /\ earlierPass.pc = "listing"
    /\ \E response \in DriveResponses :
         LET outcome == listPhotosInFolder(response, String(driveToken))
             p       == runLoop(afterListing(earlierPass, outcome), driveToken)
         IN  /\ earlierPass' = p
             /\ isLoadingPhotos' = IF p.pc = "listing" THEN isLoadingPhotos
                                   ELSE FALSE
             /\ photoError' = IF p.failure # "" THEN Some(p.failure) ELSE photoError
             /\ drivePhotos' = IF p.published # << >>
                               THEN p.published[Len(p.published)] ELSE drivePhotos
             /\ reactCommit(drivePhotos', isPlaying, currentPhotoIndex)
    /\ UNCHANGED <<appStorage, pass, dialog, isAuthenticated, signOutCall>>
    /\ UNCHANGED authVars

\* The account button is pressed by the signed-in user (handleGoogleSignIn):
\* signOut(), then handleAuthStateChange(null); the effect on
\* isAuthenticated empties the photos, and the dialog's effect its fields
HandleSignOut ==
    /\ page = "app"
    /\ dialog.visible
    /\ isAuthenticated
    /\ localStorage' = removeAttempt(clearStoredAuth(localStorage))
    /\ currentUser' = null
    /\ accessToken' = null
    /\ isAuthenticated' = FALSE
    /\ drivePhotos' = << >>
    /\ photoError' = null
    /\ reactCommit(<< >>, isPlaying, 0)
    /\ dialog' = [dialog EXCEPT !.sharedFolderUrl = << >>, !.folders = << >>,
                                !.selectedFolders = << >>]
    /\ UNCHANGED <<appStorage, pass, isLoadingPhotos, earlierPass, signOutCall>>
    /\ UNCHANGED <<env, now, page, driveToken, exchange, tokenRequests, nextCode,
                   before, lastOp>>

\* The signed-in App with the folder URL and the selection ["root"] stored;
\* the settings dialog is open and has found no sub-folder; the slideshow is
\* paused
InitOverlap ==
    /\ LET set == setAuthenticatedUser(
                      [id |-> "1", email |-> "a@x", name |-> "A", photo |-> "pic"],
                      Some("t1"), null,
                      [temp_auth_code |-> null, oauth_completion_time |-> null,
                       google_auth_user |-> null, google_auth_token |-> null])
       IN  /\ localStorage = set.ls
           /\ currentUser = set.user
           /\ accessToken = set.token
           /\ driveToken = set.lister
    /\ env = [REACT_APP_GOOGLE_CLIENT_ID |-> Some("cid"),
              REACT_APP_GOOGLE_CLIENT_SECRET |-> Some("sec")]
    /\ now = 0
    /\ page = "app"
    /\ exchange = Idle
    /\ tokenRequests = [c \in Codes |-> 0]
    /\ nextCode = 2
    /\ before = Session
    /\ lastOp = [at |-> 0, op |-> "none", outcome |-> "none"]
    /\ appStorage = [shared_moments_folder_url |-> Some(SharingUrl),
                     selected_folders |-> Some(JSON_stringifyArray(<<"root">>))]
    /\ pass = NoPass
    /\ drivePhotos = << >>
    /\ photoError = null
    /\ isLoadingPhotos = FALSE
    /\ dialog = [ClosedDialog EXCEPT
                    !.visible = TRUE,
                    !.sharedFolderUrl = SharingUrl,
                    !.selectedFolders = <<"root">>,
                    !.foldersCall = [pc |-> "done", requested |-> Some("XYZ123"),
                                     outcome |-> Some(Returned(<< >>))]]
    /\ isAuthenticated = TRUE
    /\ isPlaying = FALSE
    /\ currentPhotoIndex = 0
    /\ timer = NoTimer
    /\ rendered = [index |-> 0, count |-> SamplePhotos]
    /\ earlierPass = NoPass
    /\ signOutCall = NoCall

NextOverlap ==
    \/ LoadPhotos
    \/ ListingResponse
    \/ ToggleFolder
    \/ ToggleFolderWhileListing
    \/ EarlierListingResponse
    \/ HandleSignOut

SpecOverlap == InitOverlap /\ [][NextOverlap]_vars

----------------------------------------------------------------------------
(* The build over the asynchronous store (part_004, with the App of        *)
(* part_001).  Storage.setItem and Storage.removeItem return a promise: the *)
(* call takes effect in the store when it completes, and the caller that   *)
(* awaits it resumes then.  Calls of different callers complete in any     *)
(* order.  signOutCall says which Storage call each suspended caller       *)
(* awaits: clearStoredAuth, signOut and setAuthenticatedUser.              *)

\* Storage.removeItem(key), when it completes (utils/storage)
Storage_removeItem(store, key) == removeItem(store, key)

\* Storage.setItem(key, value), when it completes (utils/storage)
Storage_setItem(store, key, value) == setItem(store, key, value)

\* signIn: the user and the token of the demo sign-in
mockUser ==
    [id |-> "mobile-user-123", email |-> "mobile@example.com",
     name |-> "Mobile User", photo |-> undefined]

mockToken == "mobile-demo-token-123"

\* The effect of the App on isAuthenticated, after setIsAuthenticated(value)
authenticatedEffect(value) ==
    IF value = isAuthenticated
    THEN UNCHANGED <<pass, drivePhotos, photoError, isLoadingPhotos, slideVars>>
    ELSE IF value THEN loadPhotosFromDrive(appStorage)
    ELSE /\ drivePhotos' = << >>
         /\ photoError' = null
         /\ reactCommit(<< >>, isPlaying, 0)
         /\ UNCHANGED <<pass, isLoadingPhotos>>

\* The account button is pressed by the signed-in user: handleGoogleSignIn
\* calls signOut(), which calls clearStoredAuth() without awaiting it; both
\* run to their first Storage call
AsyncSignOut ==
    /\ page = "app"
    /\ isAuthenticated
    /\ signOutCall = NoCall
    /\ signOutCall' = [NoCall EXCEPT !.clear = "removeUser",
                                     !.signOut = "removeCode"]
    /\ UNCHANGED <<appStorage, pass, drivePhotos, photoError, isLoadingPhotos,
                   dialog, slideVars, isAuthenticated, earlierPass>>
    /\ UNCHANGED authVars

\* The Storage call that clearStoredAuth awaits completes
ClearStoredAuthResumes ==
    /\ \/ /\ signOutCall.clear = "removeUser"
          /\ localStorage' = Storage_removeItem(localStorage, "google_auth_user")
          /\ signOutCall' = [signOutCall EXCEPT !.clear = "removeToken"]
          /\ UNCHANGED <<currentUser, accessToken>>
       \/ /\ signOutCall.clear = "removeToken"
          /\ localStorage' = Storage_removeItem(localStorage, "google_auth_token")
          /\ currentUser' = null
          /\ accessToken' = null
          /\ signOutCall' = [signOutCall EXCEPT !.clear = "none"]
    /\ UNCHANGED <<env, now, page, driveToken, exchange, tokenRequests, nextCode,
                   before, lastOp>>
    /\ UNCHANGED <<appStorage, pass, drivePhotos, photoError, isLoadingPhotos,
                   dialog, slideVars, isAuthenticated, earlierPass>>

\* The Storage call that signOut awaits completes; after the second one the
\* promise of signOut() resolves and handleGoogleSignIn goes on with
\* onAuthStateChange(null)
SignOutResumes ==
    /\ \/ /\ signOutCall.signOut = "removeCode"
          /\ localStorage' = Storage_removeItem(localStorage, "temp_auth_code")
          /\ signOutCall' = [signOutCall EXCEPT !.signOut = "removeTime"]
          /\ UNCHANGED <<pass, drivePhotos, photoError, isLoadingPhotos, dialog,
                         slideVars, isAuthenticated>>
       \/ /\ signOutCall.signOut = "removeTime"
          /\ localStorage' = Storage_removeItem(localStorage,
                                                "oauth_completion_time")
          /\ signOutCall' = [signOutCall EXCEPT !.signOut = "none"]
          /\ isAuthenticated' = FALSE
          /\ authenticatedEffect(FALSE)
          /\ dialog' = IF dialog.visible
                       THEN [dialog EXCEPT !.sharedFolderUrl = << >>,
                                           !.folders = << >>,
                                           !.selectedFolders = << >>]
                       ELSE dialog
    /\ UNCHANGED <<env, now, page, currentUser, accessToken, driveToken, exchange,
                   tokenRequests, nextCode, before, lastOp>>
    /\ UNCHANGED <<appStorage, earlierPass>>

\* The account button is pressed by the signed-out user: signIn() calls
\* setAuthenticatedUser, which runs to its first Storage call
AsyncSignIn ==
    /\ page = "app"
    /\ ~isAuthenticated
    /\ signOutCall.signOut = "none"
    /\ signOutCall.signIn = "none"
    /\ currentUser' = Some(mockUser)
    /\ accessToken' = Some(mockToken)
    /\ signOutCall' = [signOutCall EXCEPT !.signIn = "setUser"]
    /\ UNCHANGED <<localStorage, env, now, page, driveToken, exchange,
                   tokenRequests, nextCode, before, lastOp>>
    /\ UNCHANGED <<appStorage, pass, drivePhotos, photoError, isLoadingPhotos,
                   dialog, slideVars, isAuthenticated, earlierPass>>

\* The Storage call that setAuthenticatedUser awaits completes; after the
\* second one the Lister gets the token, signIn() returns the user and
\* handleGoogleSignIn goes on with onAuthStateChange(user)
SignInResumes ==
    /\ \/ /\ signOutCall.signIn = "setUser"
          /\ localStorage' = Storage_setItem(localStorage, "google_auth_user",
                                             JSON_stringify(mockUser))
          /\ signOutCall' = [signOutCall EXCEPT !.signIn = "setToken"]
          /\ UNCHANGED <<driveToken, pass, drivePhotos, photoError,
                         isLoadingPhotos, slideVars, isAuthenticated>>
       \/ /\ signOutCall.signIn = "setToken"
          /\ localStorage' = Storage_setItem(localStorage, "google_auth_token",
                                             mockToken)
          /\ driveToken' = IF Truthy(accessToken) THEN accessToken ELSE driveToken
          /\ signOutCall' = [signOutCall EXCEPT !.signIn = "none"]
          /\ isAuthenticated' = TRUE
          /\ authenticatedEffect(TRUE)
    /\ UNCHANGED <<env, now, page, currentUser, accessToken, exchange,
                   tokenRequests, nextCode, before, lastOp>>
    /\ UNCHANGED <<appStorage, dialog, earlierPass>>

\* The polling timer of the App fires: checkAuthStatus
CheckAuthStatus ==
    /\ page = "app"
    /\ IF isSignedIn
       THEN /\ isAuthenticated' = (currentUser # null)
            /\ authenticatedEffect(currentUser # null)
       ELSE UNCHANGED <<pass, drivePhotos, photoError, isLoadingPhotos,
                        slideVars, isAuthenticated>>
    /\ UNCHANGED <<appStorage, dialog, earlierPass, signOutCall>>
    /\ UNCHANGED authVars

\* The App with the user of the demo sign-in signed in and the dialog open,
\* the slideshow playing or paused; the store may hold what is left of an
\* authorization attempt
InitAsync ==
    /\ \E code \in {null, Some("1")}, time \in {null, Some("0")} :
         LET set == setAuthenticatedUser(
                        mockUser, Some(mockToken), null,
                        [temp_auth_code |-> code, oauth_completion_time |-> time,
                         google_auth_user |-> null, google_auth_token |-> null])
         IN  /\ localStorage = set.ls
             /\ currentUser = set.user
             /\ accessToken = set.token
             /\ driveToken = set.lister
    /\ env = [REACT_APP_GOOGLE_CLIENT_ID |-> Some("cid"),
              REACT_APP_GOOGLE_CLIENT_SECRET |-> Some("sec")]
    /\ now = 0
    /\ page = "app"
    /\ exchange = Idle
    /\ tokenRequests = [c \in Codes |-> 0]
    /\ nextCode = 2
    /\ before = Session
    /\ lastOp = [at |-> 0, op |-> "none", outcome |-> "none"]
    /\ appStorage = NoSettings
    /\ pass = NoPass
    /\ drivePhotos = << >>
    /\ photoError = null
    /\ isLoadingPhotos = FALSE
    /\ dialog = [ClosedDialog EXCEPT !.visible = TRUE]
    /\ isAuthenticated = TRUE
    /\ isPlaying \in BOOLEAN
    /\ currentPhotoIndex = 0
    /\ timer = NoTimer
    /\ rendered = [index |-> 0, count |-> SamplePhotos]
    /\ earlierPass = NoPass
    /\ signOutCall = NoCall

NextAsync ==
    \/ AsyncSignOut
    \/ ClearStoredAuthResumes
    \/ SignOutResumes
    \/ AsyncSignIn
    \/ SignInResumes
    \/ CheckAuthStatus

SpecAsync == InitAsync /\ [][NextAsync]_vars

----------------------------------------------------------------------------
(* The slideshow of the signed-in App: the play button, the arrows, the    *)
(* advance timer, and the passes that replace the photos.                  *)

\* togglePlayPause
TogglePlayPause ==
    /\ page = "app"
    /\ reactCommit(drivePhotos, ~isPlaying, currentPhotoIndex)
    /\ UNCHANGED <<appStorage, pass, drivePhotos, photoError, isLoadingPhotos,
                   dialog, sessionVars>>
    /\ UNCHANGED authVars

\* nextPhoto
NextPhoto ==
    /\ page = "app"
    /\ displayLength(drivePhotos) > 0
    /\ reactCommit(drivePhotos, isPlaying,
                   nextIndex(currentPhotoIndex, displayLength(drivePhotos)))
    /\ UNCHANGED <<appStorage, pass, drivePhotos, photoError, isLoadingPhotos,
                   dialog, sessionVars>>
    /\ UNCHANGED authVars

\* prevPhoto
PrevPhoto ==
    /\ page = "app"
    /\ displayLength(drivePhotos) > 0
    /\ reactCommit(drivePhotos, isPlaying,
                   prevIndex(currentPhotoIndex, displayLength(drivePhotos)))
    /\ UNCHANGED <<appStorage, pass, drivePhotos, photoError, isLoadingPhotos,
                   dialog, sessionVars>>
    /\ UNCHANGED authVars

\* An interval of the advance timer fires:
\* setCurrentPhotoIndex(prev => (prev + 1) % drivePhotos.length)
TimerFires ==
    /\ page = "app"
    /\ timer.live # {}
    /\ reactCommit(drivePhotos, isPlaying, (currentPhotoIndex + 1) % timer.length)
    /\ UNCHANGED <<appStorage, pass, drivePhotos, photoError, isLoadingPhotos,
                   dialog, sessionVars>>
    /\ UNCHANGED authVars

\* The App after a sign-in, playing, with the folder URL stored and either
\* no selection or a selection of two folders
InitShow ==
    /\ LET set == setAuthenticatedUser(
                      [id |-> "1", email |-> "a@x", name |-> "A", photo |-> "pic"],
                      Some("t1"), null,
                      [temp_auth_code |-> null, oauth_completion_time |-> null,
                       google_auth_user |-> null, google_auth_token |-> null])
       IN  /\ localStorage = set.ls
           /\ currentUser = set.user
           /\ accessToken = set.token
           /\ driveToken = set.lister
    /\ env = [REACT_APP_GOOGLE_CLIENT_ID |-> Some("cid"),
              REACT_APP_GOOGLE_CLIENT_SECRET |-> Some("sec")]
    /\ now = 0
    /\ page = "app"
    /\ exchange = Idle
    /\ tokenRequests = [c \in Codes |-> 0]
    /\ nextCode = 2
    /\ before = Session
    /\ lastOp = [at |-> 0, op |-> "none", outcome |-> "none"]
    /\ appStorage \in
         [shared_moments_folder_url : {Some(SharingUrl)},
          selected_folders : {null, Some(JSON_stringifyArray(<<UrlFormId, "root">>))}]
    /\ pass = NoPass
    /\ drivePhotos = << >>
    /\ photoError = null
    /\ isLoadingPhotos = FALSE
    /\ dialog = ClosedDialog
    /\ isAuthenticated = TRUE
    /\ isPlaying = TRUE
    /\ currentPhotoIndex = 0
    /\ timer = NoTimer
    /\ rendered = [index |-> 0, count |-> SamplePhotos]
    /\ earlierPass = NoPass
    /\ signOutCall = NoCall

NextShow ==
    \/ TimerFires
    \/ LoadPhotos
    \/ ListingResponse
    \/ TogglePlayPause
    \/ NextPhoto
    \/ PrevPhoto

SpecShow == InitShow /\ [][NextShow]_vars

----------------------------------------------------------------------------
(* Properties of the startup check *)

\* The attempt the storage holds, as the startup check reads it
attemptCode == getItem(localStorage, "temp_auth_code")

attemptAge == 
    IF Truthy(getItem(localStorage, "oauth_completion_time"))
    THEN timeDiff(now, getItem(localStorage, "oauth_completion_time")[1])
    ELSE NaN

hasAttempt == Truthy(attemptCode) /\ attemptAge # NaN

requestSentFor(code) ==
    /\ tokenRequests' = [tokenRequests EXCEPT ![code] = @ + 1]
    /\ exchange' = [pc |-> "awaitToken", code |-> code]

C2_NoAttemptAfterStart ==
    lastOp.op = "start" =>
        /\ localStorage.temp_auth_code = null
        /\ localStorage.oauth_completion_time = null

\* C3: no authorization code is sent to the token endpoint more than once,
\* over any interleaving of starts, sign-ins, sign-outs and responses.
C3_ConsumeOnce == \A c \in Codes : tokenRequests[c] <= 1

\* A start that found nothing to exchange although a code went out earlier
C3_Witness ==
    /\ lastOp.op = "start"
    /\ lastOp.outcome = "noExchange"
    /\ \E c \in Codes : tokenRequests[c] = 1

----------------------------------------------------------------------------
(* Properties of the session *)

\* C4: when processAuthCode ends on a non-success response of the token or of
\* the profile endpoint, user, token, Lister token and persisted session keys
\* are what they were before the call.
C4_FailureLeavesSession ==
    (lastOp.op = "processAuthCode"
        /\ lastOp.outcome \in {"tokenFailed", "profileFailed"})
    => Session = before

\* C5: the in-memory user is non-null exactly when the in-memory token is.
C5_UserIffToken == (currentUser # null) <=> (accessToken # null)

\* C6: after signOut user and token are null, the four keys are absent,
\* isSignedIn() is false and a fresh start adopts no session.
C6_SignOutClears ==
    lastOp.op = "signOut" =>
        /\ currentUser = null
        /\ accessToken = null
        /\ \A key \in DOMAIN localStorage : localStorage[key] = null
        /\ ~isSignedIn
        /\ loadStoredAuth(checkForOAuthCompletion(localStorage, now).ls).user = null

\* signOut has run in a page that had adopted a session
C6_Witness == lastOp.op = "signOut" /\ driveToken # null

\* C7: what setAuthenticatedUser has persisted, a start with the storage
\* unchanged restores: the same user fields and the same token.
C7_RoundTrip ==
    (lastOp.op = "processAuthCode" /\ lastOp.outcome = "signedIn") =>
        /\ loadStoredAuth(localStorage).user = currentUser
        /\ loadStoredAuth(localStorage).token = accessToken

\* C8: a start adopts the persisted session, and hands its token to the
\* Lister, exactly when both the user and the token are stored; otherwise the
\* client is signed out, has no token and the Lister has none.
C8_AdoptIffBoth ==
    lastOp.op = "start" =>
        LET storedUser  == localStorage.google_auth_user
            storedToken == localStorage.google_auth_token
        IN  IF storedUser # null /\ storedToken # null
            THEN /\ isSignedIn
                 /\ currentUser = Some(JSON_parse(storedUser[1]))
                 /\ getAccessToken = storedToken
                 /\ driveToken = storedToken
            ELSE /\ ~isSignedIn
                 /\ getAccessToken = null
                 /\ driveToken = null

\* A start that found the user stored without the token
C8_Witness ==
    /\ lastOp.op = "start"
    /\ localStorage.google_auth_user # null
    /\ localStorage.google_auth_token = null

\* C9, as stated: only signOut takes a signed-in client to signed-out.
C9_AsStated ==
    [][(isSignedIn /\ ~isSignedIn') => lastOp'.op = "signOut"]_vars

\* C9, amended: only signOut and signIn (which clears the in-memory session
\* before it builds the URL) take a signed-in client to signed-out; a start,
\* a token response and a profile response never do.
C9_OnlySignOutOrSignIn ==
    [][(isSignedIn /\ ~isSignedIn') => lastOp'.op \in {"signOut", "signIn"}]_vars

\* signIn has run on a client whose session is still in the storage
C9_Witness ==
    /\ lastOp.op = "signIn"
    /\ ~isSignedIn
    /\ localStorage.google_auth_user # null
    /\ localStorage.google_auth_token # null

----------------------------------------------------------------------------
(* Properties of sign-in *)

\* C10: with no client id configured, signIn reports the configuration error:
\* it builds no authorization URL and the page does not leave for the
\* identity provider.
C10_FailsFast ==
    (lastOp.op = "signIn" /\ env.REACT_APP_GOOGLE_CLIENT_ID = null)
    => (lastOp.outcome = "error" /\ page = "app")

----------------------------------------------------------------------------
(* Properties of the aggregation pass *)

\* The lists the listing calls of the pass returned, one after the other in
\* the order of the calls; a failed call adds nothing
RECURSIVE Returns(_)
Returns(results) ==
    IF results = << >> THEN << >>
    ELSE (IF Head(results).ok THEN Head(results).list ELSE << >>)
         \o Returns(Tail(results))

\* The photos of a list whose id was not seen before, in the order of the list
RECURSIVE KeepFirst(_, _)
KeepFirst(photos, seen) ==
    IF photos = << >> THEN << >>
    ELSE IF Head(photos).id \in seen THEN KeepFirst(Tail(photos), seen)
    ELSE <<Head(photos)>> \o KeepFirst(Tail(photos), seen \cup {Head(photos).id})

\* The pass has handed a list to setDrivePhotos
hasPublished == pass.published # << >>

lastPublished == pass.published[Len(pass.published)]

someListingFailed == \E k \in 1..Len(pass.results) : ~pass.results[k].ok

\* The pass ended before it had a list of target folders
endedBeforeTargets == pass.failure \in {NoUrlConfigured, FailedToLoad}

\* C11: the list a pass hands to setDrivePhotos, and so the list the App
\* holds, has no two entries with the same id; every photo that a listing
\* call of the pass returned, by one folder or by several, is in it exactly once
C11_NoDuplicateIds ==
    /\ \A i, j \in 1..Len(drivePhotos) :
           drivePhotos[i].id = drivePhotos[j].id => i = j
    /\ hasPublished =>
         /\ drivePhotos = lastPublished
         /\ \A k \in 1..Len(pass.results) :
              \A n \in 1..Len(pass.results[k].list) :
                Cardinality({i \in 1..Len(drivePhotos) :
                               drivePhotos[i].id = pass.results[k].list[n].id}) = 1

\* Two folders of the pass returned the same photo
C11_Witness ==
    /\ hasPublished
    /\ \E k, m \in 1..Len(pass.results) :
         /\ k < m
         /\ pass.results[k].list # << >>
         /\ pass.results[m].list # << >>
         /\ pass.results[k].list[1].id = pass.results[m].list[1].id
    /\ Len(drivePhotos) = 1

C13_PartialFailure ==
    someListingFailed =>
        /\ pass.failure = ""
        /\ pass.pc = "listing" => Len(pass.called) = Len(pass.results) + 1
        /\ pass.pc = "done" =>
             /\ Len(pass.results) = Len(pass.folderIds)
             /\ pass.published = <<KeepFirst(Returns(pass.results), {})>>
             /\ drivePhotos = lastPublished
             /\ photoError = null
             /\ ~isLoadingPhotos

\* The first folder failed, the second returned a photo, the third failed
C13_Witness ==
    /\ pass.pc = "done"
    /\ Len(pass.results) = 3
    /\ ~pass.results[1].ok
    /\ pass.results[2].ok
    /\ ~pass.results[3].ok
    /\ Len(drivePhotos) = 1

\* C14: a pass in which a listing call failed ends with the error message
\* and the Retry button on the screen
C14_FailureSurfaced ==
    (pass.pc = "done" /\ someListingFailed) =>
        (photoError # null /\ renderPhotoContent = "errorWithRetry")

\* C15: while the Lister holds no token, no call of listPhotosInFolder or
\* listFoldersInFolder sends a request, and each call ends with the error
\* 'No access token available', never with a list
C15_NoTokenNoRequest ==
    driveToken = null =>
        /\ pass.requested = << >>
        /\ pass.pc # "listing"
        /\ \A k \in 1..Len(pass.results) :
             pass.results[k] = Thrown("No access token available")
        /\ Len(pass.results) = Len(pass.called)
        /\ dialog.foldersCall.requested = null
        /\ dialog.foldersCall.pc \in {"none", "done"}
        /\ dialog.foldersCall.pc = "done" =>
             dialog.foldersCall.outcome = Some(Thrown("No access token available"))

\* Without a token a pass called listPhotosInFolder for three folders and
\* the dialog called listFoldersInFolder
C15_Witness ==
    /\ driveToken = null
    /\ pass.pc = "done"
    /\ Len(pass.called) = 3
    /\ dialog.foldersCall.pc = "done"

\* C16: the target folders of a pass are the stored selection when one is
\* stored and ["root"] when none is; listPhotosInFolder is called with the
\* root id of the stored URL for "root" and with every other id as it is
C16_TargetFolders ==
    (pass.pc # "none" /\ ~endedBeforeTargets) =>
        /\ TruthyText(pass.read) => pass.read[1] = JSON_stringifyArray(pass.folderIds)
        /\ ~TruthyText(pass.read) => pass.folderIds = <<"root">>
        /\ Len(pass.called) <= Len(pass.folderIds)
        /\ \A k \in 1..Len(pass.called) :
             /\ pass.folderIds[k] = "root" => pass.called[k] = pass.rootFolderId
             /\ pass.folderIds[k] # "root" => pass.called[k] = pass.folderIds[k]

\* A stored selection of a folder URL and "root"
C16_Witness ==
    /\ pass.pc = "done"
    /\ pass.read = Some(JSON_stringifyArray(<<UrlFormId, "root">>))
    /\ pass.called = <<UrlFormId, "XYZ123">>
    /\ pass.requested = <<"sub1", "XYZ123">>

\* The places where a URL has "/folders/" followed by a piece that is neither
\* "/" nor "?": the position of the first piece after it
SegmentStarts(url) ==
    {k \in 4..Len(url) :
        /\ url[k - 3] = "/" /\ url[k - 2] = "folders" /\ url[k - 1] = "/"
        /\ url[k] \notin {"/", "?"}}

\* The segment that starts at k: it ends before the next "/" or "?"
SegmentAt(url, k) ==
    LET last == CHOOSE e \in k..Len(url) :
                    /\ \A i \in k..e : url[i] \notin {"/", "?"}
                    /\ e = Len(url) \/ url[e + 1] \in {"/", "?"}
    IN  join(SubSeq(url, k, last))

FirstSegment(url) ==
    SegmentAt(url, CHOOSE k \in SegmentStarts(url) :
                       \A m \in SegmentStarts(url) : k <= m)

\* C17: the root id of a pass, and of the dialog's folder listing, is the
\* segment of the stored URL after "/folders/", up to the next "/" or "?";
\* a pass whose URL has no such segment ends with 'Invalid folder URL
\* format.' and has called and requested no listing
C17_RootResolution ==
    /\ folderIdMatch(SharingUrl) = Some("XYZ123")
    /\ folderIdMatch(DriveHomeUrl) = null
    /\ (pass.pc # "none" /\ TruthyText(pass.url) /\ pass.failure # FailedToLoad) =>
         IF SegmentStarts(pass.url[1]) = {}
         THEN /\ pass.pc = "done"
              /\ pass.failure = InvalidFolderUrl
              /\ photoError = Some(InvalidFolderUrl)
              /\ pass.called = << >>
              /\ pass.requested = << >>
              /\ ~hasPublished
         ELSE /\ pass.failure = ""
              /\ pass.rootFolderId = FirstSegment(pass.url[1])
    /\ dialog.foldersCall.requested # null =>
         dialog.foldersCall.requested =
             Some(FirstSegment(appStorage.shared_moments_folder_url[1]))

\* A stored URL whose segment is followed by a query
C17_Witness ==
    /\ pass.url = Some(<<"/", "folders", "/", "XYZ123", "?">>)
    /\ pass.rootFolderId = "XYZ123"
    /\ pass.requested = <<"XYZ123">>
    /\ dialog.foldersCall.requested = Some("XYZ123")

\* The preview URLs of a list of photos
thumbnailLinks(photos) == [i \in 1..Len(photos) |-> photos[i].thumbnailLink]

\* C18: the preview URL of a photo is made of the photo's id only: it holds
\* no piece that is the Lister's token, and listPhotosInFolder gives the
\* same preview URLs for the same response whatever the token is
C18_PreviewWithoutToken ==
    /\ \A i \in 1..Len(pass.allPhotos) :
         /\ driveToken # null =>
              driveToken[1] \notin Range(pass.allPhotos[i].thumbnailLink)
         /\ \A j \in 1..Len(pass.allPhotos) :
              pass.allPhotos[i].id = pass.allPhotos[j].id =>
                  pass.allPhotos[i].thumbnailLink = pass.allPhotos[j].thumbnailLink
    /\ \A response \in DriveResponses : \A t1, t2 \in Tokens :
         thumbnailLinks(listPhotosInFolder(response, t1).list) =
         thumbnailLinks(listPhotosInFolder(response, t2).list)

\* A photo listed with the second token, whose download link holds the token
C18_Witness ==
    /\ driveToken = Some("t2")
    /\ \E i \in 1..Len(drivePhotos) :
         /\ drivePhotos[i].webContentLink # null
         /\ "t2" \in Range(drivePhotos[i].webContentLink[1])

\* C19: once the user has changed the selection in the dialog, by a toggle,
\* Select All or Deselect All, the stored selection is the dialog's
\* selection, and the pass that runs next has read that stored text and
\* lists those folders
C19_SelectionPersisted ==
    dialog.edited =>
        /\ appStorage.selected_folders =
               Some(JSON_stringifyArray(dialog.selectedFolders))
        /\ pass.read = appStorage.selected_folders
        /\ pass.failure # FailedToLoad
        /\ pass.failure # NoUrlConfigured => pass.folderIds = dialog.selectedFolders

\* Select All, then the root folder is toggled off
C19_Witness ==
    /\ dialog.edited
    /\ dialog.selectedFolders = <<"sub1">>
    /\ pass.pc = "done"
    /\ pass.called = <<"sub1">>

\* C20 as stated: every pass hands a list to setDrivePhotos exactly once, and
\* never while a listing call is outstanding
C20_AsStated ==
    /\ pass.pc = "listing" => ~hasPublished
    /\ pass.pc = "done" =>
         Len(pass.published) = 1 /\ Len(pass.results) = Len(pass.folderIds)

\* C20: a pass hands a list to setDrivePhotos at most once, never while a
\* listing call is outstanding and only after every target folder's call
\* has returned or failed; it does so exactly once when it gets to the
\* listing, and not at all when it ends before (no folder URL, a URL without
\* folder segment, a stored selection that cannot be parsed)
C20_FanInBarrier ==
    /\ Len(pass.published) <= 1
    /\ pass.pc = "listing" => ~hasPublished
    /\ hasPublished => pass.pc = "done" /\ Len(pass.results) = Len(pass.folderIds)
    /\ (pass.pc = "done" /\ pass.failure = "") => Len(pass.published) = 1
    /\ pass.failure # "" => ~hasPublished

\* A pass of three folders, with a failure in the middle, has published
C20_Witness ==
    /\ pass.pc = "done"
    /\ Len(pass.results) = 3
    /\ pass.results[1].ok
    /\ ~pass.results[2].ok
    /\ pass.results[3].ok
    /\ Len(pass.published) = 1

----------------------------------------------------------------------------
(* Properties of sign-out and of the session as a cache of the store *)

\* C22: when signOut runs while the exchange started by the startup check is
\* awaiting the token or the profile endpoint, the step that follows, unless
\* it is a signIn, leaves the client signed out and the store without the
\* session keys: the late end of the exchange creates no session
C22_SignOutFinal ==
    [][(lastOp.op = "signOut" /\ exchange # Idle /\ lastOp'.op # "signIn") =>
          /\ ~isSignedIn'
          /\ localStorage'.google_auth_user = null
          /\ localStorage'.google_auth_token = null]_vars

\* C24: the Lister's token is the token getAccessToken() returns; after
\* signOut, and after signIn has cleared the session, the Lister has none
C24_ListerTokenAgrees ==
    lastOp.op \in {"signOut", "signIn"} =>
        (driveToken = getAccessToken /\ driveToken = null)

\* The (user, token) pair of the store, as a start reads it
storedPair ==
    [user  |-> IF localStorage.google_auth_user # null
               THEN Some(JSON_parse(localStorage.google_auth_user[1])) ELSE null,
     token |-> localStorage.google_auth_token]

\* C25: while no exchange is in flight and the store holds a whole session
\* or none, the in-memory (user, token) pair is the pair in the store
C25_FaithfulCache ==
    (page = "app" /\ exchange = Idle
        /\ ((storedPair.user = null) <=> (storedPair.token = null))) =>
        /\ currentUser = storedPair.user
        /\ accessToken = storedPair.token

----------------------------------------------------------------------------
(* Properties of the slideshow *)

\* The timer that ran before the step is cleared by it
timerCancelled == timer.mine # null => timer.mine[1] \notin timer'.live

\* The step has made an interval
timerStarted == timer'.last # timer.last /\ timer'.live = {timer'.last}

\* C21 as stated: the timer is active only while the slideshow is playing,
\* there is at most one, and every change of the play state or of the photo
\* set cancels the running timer and, when the slideshow is then playing
\* with drive photos, starts a fresh one
C21_AsStated ==
    /\ [](timer.live # {} => isPlaying)
    /\ [](Cardinality(timer.live) <= 1)
    /\ [][(isPlaying' # isPlaying \/ drivePhotos' # drivePhotos) =>
            /\ timerCancelled
            /\ (isPlaying' /\ drivePhotos' # << >>) => timerStarted]_vars

\* C21: the timer is active only while the slideshow is playing, in fact
\* exactly while it is playing with at least one drive photo; there is at
\* most one; every change of the play state or of the number of drive
\* photos cancels the running timer and, when the slideshow is then playing
\* with drive photos, starts a fresh one; a step that changes neither
\* leaves the running timer alone
C21_OneTimerWhilePlaying ==
    /\ [](timer.live # {} <=> (isPlaying /\ drivePhotos # << >>))
    /\ [](Cardinality(timer.live) <= 1)
    /\ [][(isPlaying' # isPlaying \/ Len(drivePhotos') # Len(drivePhotos)) =>
            /\ timerCancelled
            /\ (isPlaying' /\ drivePhotos' # << >>) => timerStarted]_vars
    /\ [][(isPlaying' = isPlaying /\ Len(drivePhotos') = Len(drivePhotos)) =>
            timer' = timer]_vars

\* The second timer is running over two photos: the first was made for one
\* photo and cleared when the second photo came
C21_Witness ==
    /\ isPlaying
    /\ Len(drivePhotos) = 2
    /\ timer.live = {0}
    /\ timer.last = 0
    /\ timer.length = 2

\* C28: the current photo index is an index of the displayed list, in the
\* state the effects leave and in the render before them
C28_IndexInRange ==
    /\ 0 <= currentPhotoIndex
    /\ currentPhotoIndex < displayLength(drivePhotos)
    /\ 0 <= rendered.index
    /\ rendered.index < rendered.count

----------------------------------------------------------------------------
(* Properties of the settings dialog *)

\* C29: while the dialog is open for the signed-in user, the folders it shows
\* as checked are the target folders of the next pass, also when no
\* selection is stored (the pass then loads from "root")
C29_DialogShowsTargets ==
    (dialog.visible /\ isAuthenticated
        /\ targetFolderIds(appStorage.selected_folders) # null) =>
        Range(dialog.selectedFolders) =
            Range(targetFolderIds(appStorage.selected_folders)[1])

\* C30: a folder URL that handleSaveUrl has stored is one the pass resolves:
\* the stored URL has a folder segment, and no pass ends with 'Invalid
\* folder URL format.'
C30_SavedUrlResolves ==
    /\ appStorage.shared_moments_folder_url # null =>
         folderIdMatch(appStorage.shared_moments_folder_url[1]) # null
    /\ pass.failure # InvalidFolderUrl
    /\ photoError # Some(InvalidFolderUrl)

----------------------------------------------------------------------------
(* Properties of passes in flight *)

\* C26: once every pass has ended, the photos on the screen are the list of
\* the pass that was started last, the one that read the selection stored
\* last; the end of an overtaken pass does not replace it
C26_LatestPassWins ==
    (isAuthenticated /\ pass.pc = "done" /\ pass.failure = ""
        /\ earlierPass.pc # "listing") =>
        (hasPublished /\ drivePhotos = lastPublished)

\* C27: while the UI is not authenticated and no pass is in flight, the App
\* holds no drive photos
C27_NoPhotosSignedOut ==
    (~isAuthenticated /\ pass.pc # "listing" /\ earlierPass.pc # "listing") =>
        drivePhotos = << >>

----------------------------------------------------------------------------
(* Properties of the build over the asynchronous store *)

\* The promise of signOut() resolves in this step
signOutResolves == signOutCall.signOut = "removeTime" /\ signOutCall'.signOut = "none"

\* C23: when the promise of signOut() resolves, the in-memory user and token
\* are null and the two session keys are removed, in whatever order the
\* Storage calls complete; and the polling checkAuthStatus does not turn the
\* signed-out UI back to authenticated: only the end of a sign-in does
C23_SignOutResolvedCleared ==
    /\ [][signOutResolves =>
            /\ currentUser' = null
            /\ accessToken' = null
            /\ localStorage'.google_auth_user = null
            /\ localStorage'.google_auth_token = null]_vars
    /\ [][(~isAuthenticated /\ isAuthenticated') =>
            signOutCall.signIn = "setToken"]_vars

====
